---- MODULE Spec2Model ----
(***************************************************************************)
(* Model of the machine-claimer backend (src/src/index.ts, the buffer      *)
(* scaling revision at lines 218-498): the worker table, the four routes   *)
(* /register, /heartbeat, /claim, /release and scaleToMeetBuffer().        *)
(*                                                                         *)
(* Every `await` of a handler is an interleaving point: a handler is a     *)
(* sequence of atomic steps, one per request that reaches DynamoDB or the  *)
(* Auto Scaling API; the synchronous code that follows an await belongs to *)
(* the step of that await.  A ScanCommand is served and its response       *)
(* filtered at one clock value.  /register and /heartbeat sample the clock *)
(* when they build their command and write when it arrives: their step is  *)
(* the arrival, carrying any clock value sampled so far.                   *)
(* The table is taken to be reachable: a command sent to it is served.     *)
(* The Auto Scaling API may fail.                                          *)
(*                                                                         *)
(* Spec is the program with the clock stepping through a cooldown and a    *)
(* staleness threshold; LeaseSpec is the program with the clock stepping   *)
(* past a lease's expiry, and with the fairness of a running server.       *)
(*                                                                         *)
(* Time is in milliseconds, as Date.now() gives it.                        *)
(***************************************************************************)
EXTENDS Integers, FiniteSets, TLC

\* ---------------------------------------------------------------- bounds
StartTime == 100000      \* Date.now() when the model starts (far past the epoch)
MaxTicks == 2            \* how many clock steps the model takes
MaxSize == 2             \* MaxSize of the Auto Scaling group

\* ------------------------------------------------------- program constants
LEASE_TTL_MS == 10 * 60 * 1000
HEARTBEAT_MAX_AGE_MS == 60 * 1000
SCALE_COOLDOWN_MS == 30 * 1000

\* ------------------------------------------------------------ input sets
Ids == {"i1"}                      \* instanceId values
Users == {"u1", "u2"}              \* userId values, one claim handler each
PublicIps == {"1.1.1.1"}           \* publicIp of a register body
PrivateIps == {"10.0.0.1"}         \* privateIp of a register body
TargetChoices == {1, 2}            \* TARGET_AVAILABLE: set to 1, or left at the default 2

NULL == "null"           \* a null or absent string attribute
NoTime == -1             \* a null or absent number attribute
ABSENT == "absent"       \* the status of an item that has no status attribute

VARIABLES
  TARGET_AVAILABLE, \* Number(process.env.TARGET_AVAILABLE || 2), fixed at start
  now,              \* Date.now()
  store,            \* the DynamoDB table: instanceId -> item
  lastScaleOutAt,   \* module variable of index.ts
  fleet,            \* the Auto Scaling group as the API reports it
  pc,               \* position of each /claim handler
  chosen,           \* chosen.instanceId
  expiry,           \* expiry
  t,                \* t of scaleToMeetBuffer
  missing,          \* missing of scaleToMeetBuffer
  desired,          \* desired of scaleToMeetBuffer
  desiredAfter,     \* desiredAfter of scaleToMeetBuffer
  result,           \* the response of the handler
  \* history variables (read by the properties only)
  claimedAt,        \* per handler: the clock value its expiry was computed from
  leaseSetAt,       \* per item: claimedAt of the claim that wrote the lease it holds
  winners,          \* per item: users whose claim succeeded since its last register/release
  sinceRelease,     \* per item: users whose claim succeeded since the last release
  setCalls,         \* per handler: SetDesiredCapacity calls sent by the current call
  setArg,           \* per handler: DesiredCapacity of the last SetDesiredCapacity sent
  setsAtNow,        \* SetDesiredCapacity calls sent since the clock last advanced
  lastScaledT       \* t of the last scaleToMeetBuffer call that returned scaled: true

vars == <<TARGET_AVAILABLE, now, store, lastScaleOutAt, fleet, pc, chosen, expiry, t,
          missing, desired, desiredAfter, result, claimedAt, leaseSetAt, winners,
          sinceRelease, setCalls, setArg, setsAtNow, lastScaledT>>

handler == <<pc, chosen, expiry, t, missing, desired, desiredAfter, result>>
history == <<claimedAt, leaseSetAt, winners, sinceRelease, setCalls, setArg,
             setsAtNow, lastScaledT>>

\* ------------------------------------------------------------- helpers
Min(a, b) == IF a <= b THEN a ELSE b

\* The clock advances by a short and a long step in turn.  The short step is
\* shorter than the cooldown; the long step is longer than the cooldown and
\* shorter than the staleness threshold; the two together exceed the threshold.
ShortStep == (2 * SCALE_COOLDOWN_MS) \div 3

ClockStep == (SCALE_COOLDOWN_MS + HEARTBEAT_MAX_AGE_MS) \div 2

\* Date.now() after k steps of the clock
TimeAt(k) == StartTime + (k \div 2) * (ShortStep + ClockStep) + (k % 2) * ShortStep

MaxTime == TimeAt(MaxTicks)

\* publicIp || null
OrNull(s) == IF s = "" THEN NULL ELSE s

\* (m.lastHeartbeat || 0)
HeartbeatOrZero(m) == IF m.lastHeartbeat = NoTime THEN 0 ELSE m.lastHeartbeat

\* a faulty IsHealthy: the staleness filter left out
IsHealthy_NoFilter(m, tm) == TRUE

\* (now() - (m.lastHeartbeat || 0)) <= HEARTBEAT_MAX_AGE_MS
IsHealthy(m, tm) == (tm - HeartbeatOrZero(m)) <= HEARTBEAT_MAX_AGE_MS

\* ScanCommand with FilterExpression "#s = :available".  Of each item returned,
\* the attributes the handlers read: lastHeartbeat, publicIp, privateIp.
ScanAvailable(st) ==
  [id \in {i \in DOMAIN st : st[i].status = "available"} |->
     [lastHeartbeat |-> st[id].lastHeartbeat, publicIp |-> st[id].publicIp,
      privateIp |-> st[id].privateIp]]

\* items.filter(healthy), as the set of instanceIds kept
Healthy(its, tm) == {id \in DOMAIN its : IsHealthy(its[id], tm)}

\* an item that UpdateCommand creates when the key has no item yet
EmptyItem ==
  [status |-> ABSENT, lastHeartbeat |-> NoTime, userId |-> NULL, leaseExpiry |-> NoTime,
   publicIp |-> NULL, privateIp |-> NULL]

ItemOf(st, id) == IF id \in DOMAIN st THEN st[id] ELSE EmptyItem

\* st with the item of key id set to m (created if there is none)
Upsert(st, id, m) == [i \in DOMAIN st \cup {id} |-> IF i = id THEN m ELSE st[i]]

\* ------------------------------------------------- store writes (index.ts)
\* Item of the PutCommand of /register
RegisterItem(msg) ==
  [status |-> "available", lastHeartbeat |-> msg.t, userId |-> NULL,
   leaseExpiry |-> NoTime, publicIp |-> OrNull(msg.publicIp),
   privateIp |-> OrNull(msg.privateIp)]

\* UpdateExpression "SET lastHeartbeat = :t" of /heartbeat
HeartbeatUpdate(m, tm) == [m EXCEPT !.lastHeartbeat = tm]

\* a faulty ClaimCondition: attribute_exists(instanceId) in place of the status test
ClaimCondition_Exists(st, id) == id \in DOMAIN st

\* a faulty ClaimCondition: the UpdateCommand sent without its ConditionExpression
ClaimCondition_None(st, id) == TRUE

\* ConditionExpression "#s = :available" of /claim (false when the key has no item)
ClaimCondition(st, id) == id \in DOMAIN st /\ st[id].status = "available"

\* UpdateExpression "SET #s = :leased, userId = :u, leaseExpiry = :e" of /claim
ClaimUpdate(m, u, e) ==
  [m EXCEPT !.status = "leased", !.userId = u, !.leaseExpiry = e]

\* a faulty ReleaseUpdate: the addresses cleared with the lease
ReleaseUpdate_DropIp(m) ==
  [m EXCEPT !.status = "available", !.userId = NULL, !.leaseExpiry = NoTime,
            !.publicIp = NULL, !.privateIp = NULL]

\* a faulty ReleaseUpdate: userId not cleared
ReleaseUpdate_KeepUser(m) ==
  [m EXCEPT !.status = "available", !.leaseExpiry = NoTime]

\* UpdateExpression "SET #s = :available, userId = :null, leaseExpiry = :null" of /release
ReleaseUpdate(m) ==
  [m EXCEPT !.status = "available", !.userId = NULL, !.leaseExpiry = NoTime]

\* a faulty LeaseExpiry: the wrong constant added
LeaseExpiry_WrongTtl(tm) == tm + HEARTBEAT_MAX_AGE_MS

\* const expiry = now() + LEASE_TTL_MS
LeaseExpiry(tm) == tm + LEASE_TTL_MS

\* a faulty InCooldown: the cooldown never applies
InCooldown_Never(tm, last) == FALSE

\* t < lastScaleOutAt + SCALE_COOLDOWN_MS
InCooldown(tm, last) == tm < last + SCALE_COOLDOWN_MS

\* a faulty DesiredAfterOf: the missing count taken as the size to ask for
DesiredAfterOf_Missing(d, miss, mx) == Min(miss, mx)

\* a faulty DesiredAfterOf: one more instance per miss, as scaleOutByOneIfNeeded did
DesiredAfterOf_PlusOne(d, miss, mx) == Min(d + 1, mx)

\* a faulty DesiredAfterOf: not capped at MaxSize
DesiredAfterOf_NoCap(d, miss, mx) == d + miss

\* Math.min(desired + missing, max)
DesiredAfterOf(d, miss, mx) == Min(d + miss, mx)

\* ------------------------------------------------------------------ Init
NoItems == [id \in {} |-> EmptyItem]

NoResult == [kind |-> "none"]

Init ==
  /\ TARGET_AVAILABLE \in TargetChoices
  /\ now = StartTime
  /\ store = NoItems
  /\ lastScaleOutAt = 0
  /\ fleet \in {[desired |-> d, max |-> MaxSize] : d \in 0..MaxSize}
  /\ pc = [u \in Users |-> "idle"]
  /\ chosen = [u \in Users |-> NULL]
  /\ expiry = [u \in Users |-> NoTime]
  /\ t = [u \in Users |-> NoTime]
  /\ missing = [u \in Users |-> 0]
  /\ desired = [u \in Users |-> 0]
  /\ desiredAfter = [u \in Users |-> 0]
  /\ result = [u \in Users |-> NoResult]
  /\ claimedAt = [u \in Users |-> NoTime]
  /\ leaseSetAt = [id \in Ids |-> NoTime]
  /\ winners = [id \in Ids |-> {}]
  /\ sinceRelease = [id \in Ids |-> {}]
  /\ setCalls = [u \in Users |-> 0]
  /\ setArg = [u \in Users |-> NoTime]
  /\ setsAtNow = 0
  /\ lastScaledT = NoTime

\* ----------------------------------------------------------------- clock
Tick ==
  /\ \E k \in 0..(MaxTicks - 1) : now = TimeAt(k) /\ now' = TimeAt(k + 1)
  /\ setsAtNow' = 0
  /\ UNCHANGED <<TARGET_AVAILABLE, store, lastScaleOutAt, fleet, handler, claimedAt,
                 leaseSetAt, winners, sinceRelease, setCalls, setArg, lastScaledT>>

\* A long step of the clock, once: a lease taken before it has expired after it.
LeaseStep == LEASE_TTL_MS + ShortStep

LeaseTick ==
  /\ now <= MaxTime
  /\ now' = now + LeaseStep
  /\ setsAtNow' = 0
  /\ UNCHANGED <<TARGET_AVAILABLE, store, lastScaleOutAt, fleet, handler, claimedAt,
                 leaseSetAt, winners, sinceRelease, setCalls, setArg, lastScaledT>>

\* ------------------------------------------------------------- /register
\* The clock values a request now reaching the table can carry: its handler
\* sampled now() when it built the command, at any instant up to this one.
SampleTimes ==
  IF now <= MaxTime
    THEN {tm \in {TimeAt(k) : k \in 0..MaxTicks} : tm <= now}
    ELSE {tm \in {TimeAt(k) : k \in 0..MaxTicks} : tm <= now - LeaseStep} \cup {now}

\* The handler built the PutCommand at tm (lastHeartbeat: now()); the command
\* reaches the table: the item is created or replaced whole.
Register(id, pub, priv, tm) ==
  /\ store' = Upsert(store, id, RegisterItem([t |-> tm, publicIp |-> pub,
                                              privateIp |-> priv]))
  /\ winners' = [winners EXCEPT ![id] = {}]
  /\ leaseSetAt' = [leaseSetAt EXCEPT ![id] = NoTime]
  /\ UNCHANGED <<TARGET_AVAILABLE, now, lastScaleOutAt, fleet, handler, claimedAt,
                 sinceRelease, setCalls, setArg, setsAtNow, lastScaledT>>

\* ------------------------------------------------------------ /heartbeat
\* The handler built the UpdateCommand at tm (":t": now()); the command reaches
\* the table.  It carries no condition: UpdateItem creates the item when the key
\* has none.
Heartbeat(id, tm) ==
  /\ store' = Upsert(store, id, HeartbeatUpdate(ItemOf(store, id), tm))
  /\ UNCHANGED <<TARGET_AVAILABLE, now, lastScaleOutAt, fleet, handler, history>>

\* -------------------------------------------------------------- /release
\* One unconditional UpdateCommand; nothing is read before it.
Release(id) ==
  /\ store' = Upsert(store, id, ReleaseUpdate(ItemOf(store, id)))
  /\ winners' = [winners EXCEPT ![id] = {}]
  /\ sinceRelease' = [sinceRelease EXCEPT ![id] = {}]
  /\ leaseSetAt' = [leaseSetAt EXCEPT ![id] = NoTime]
  /\ UNCHANGED <<TARGET_AVAILABLE, now, lastScaleOutAt, fleet, handler, claimedAt,
                 setCalls, setArg, setsAtNow, lastScaledT>>

\* ---------------------------------------------------------------- /claim
\* healthy.length > 0: chosen = healthy[0] (the scan's order is not the program's
\* to decide: any healthy item may come first), expiry is computed and the
\* conditional UpdateCommand is sent
ClaimPick(u) ==
  /\ pc[u] = "idle"
  /\ \E id \in Healthy(ScanAvailable(store), now) :
       /\ chosen' = [chosen EXCEPT ![u] = id]
       /\ result' = [result EXCEPT ![u] =
                       [kind |-> "none", instanceId |-> id,
                        publicIp |-> ScanAvailable(store)[id].publicIp,
                        privateIp |-> ScanAvailable(store)[id].privateIp]]
  /\ expiry' = [expiry EXCEPT ![u] = LeaseExpiry(now)]
  /\ claimedAt' = [claimedAt EXCEPT ![u] = now]
  /\ pc' = [pc EXCEPT ![u] = "write"]
  /\ UNCHANGED <<TARGET_AVAILABLE, now, store, lastScaleOutAt, fleet, t, missing, desired,
                 desiredAfter, leaseSetAt, winners, sinceRelease, setCalls, setArg,
                 setsAtNow, lastScaledT>>

\* the conditional UpdateCommand reaches the table and its condition holds
ClaimWriteOk(u) ==
  /\ pc[u] = "write"
  /\ ClaimCondition(store, chosen[u])
  /\ store' = Upsert(store, chosen[u],
                     ClaimUpdate(ItemOf(store, chosen[u]), u, expiry[u]))
  /\ result' = [result EXCEPT ![u] =
                  [kind |-> "Claimed", instanceId |-> chosen[u],
                   publicIp |-> result[u].publicIp, privateIp |-> result[u].privateIp,
                   leaseExpiry |-> expiry[u]]]
  /\ pc' = [pc EXCEPT ![u] = "done"]
  /\ leaseSetAt' = [leaseSetAt EXCEPT ![chosen[u]] = claimedAt[u]]
  /\ winners' = [winners EXCEPT ![chosen[u]] = @ \cup {u}]
  /\ sinceRelease' = [sinceRelease EXCEPT ![chosen[u]] = @ \cup {u}]
  /\ UNCHANGED <<TARGET_AVAILABLE, now, lastScaleOutAt, fleet, chosen, expiry, t,
                 missing, desired, desiredAfter, claimedAt, setCalls, setArg, setsAtNow,
                 lastScaledT>>

\* the condition fails: ConditionalCheckFailedException, answered with 409
ClaimWriteConflict(u) ==
  /\ pc[u] = "write"
  /\ ~ClaimCondition(store, chosen[u])
  /\ result' = [result EXCEPT ![u] = [kind |-> "Conflict", instanceId |-> chosen[u]]]
  /\ pc' = [pc EXCEPT ![u] = "done"]
  /\ UNCHANGED <<TARGET_AVAILABLE, now, store, lastScaleOutAt, fleet, chosen, expiry, t,
                 missing, desired, desiredAfter, history>>

\* ------------------------------------------------------ scaleToMeetBuffer
\* a faulty RetryAfterMs: the time elapsed in place of the time left
RetryAfterMs_Elapsed(tm, last) == tm - last

\* retryAfterMs: SCALE_COOLDOWN_MS - (t - lastScaleOutAt)
RetryAfterMs(tm, last) == SCALE_COOLDOWN_MS - (tm - last)

\* healthy.length === 0: scaleToMeetBuffer() runs up to its first await.
\* const t = now(); the cooldown check returns cooldown_active
ClaimMissCooldown(u) ==
  /\ pc[u] = "idle"
  /\ Healthy(ScanAvailable(store), now) = {}
  /\ InCooldown(now, lastScaleOutAt)
  /\ result' = [result EXCEPT ![u] =
                  [kind |-> "Pending", scaled |-> FALSE, reason |-> "cooldown_active",
                   retryAfterMs |-> RetryAfterMs(now, lastScaleOutAt)]]
  /\ t' = [t EXCEPT ![u] = now]
  /\ pc' = [pc EXCEPT ![u] = "done"]
  /\ UNCHANGED <<TARGET_AVAILABLE, now, store, lastScaleOutAt, fleet, chosen, expiry,
                 missing, desired, desiredAfter, history>>

\* const t = now(); the cooldown check passes and countAvailableWorkers() is called
ClaimMissScale(u) ==
  /\ pc[u] = "idle"
  /\ Healthy(ScanAvailable(store), now) = {}
  /\ ~InCooldown(now, lastScaleOutAt)
  /\ t' = [t EXCEPT ![u] = now]
  /\ pc' = [pc EXCEPT ![u] = "count"]
  /\ UNCHANGED <<TARGET_AVAILABLE, now, store, lastScaleOutAt, fleet, chosen, expiry,
                 missing, desired, desiredAfter, result, history>>

\* healthy.length
AvailableNow(its, tm) == Cardinality(Healthy(its, tm))

\* a faulty MissingOf: the available workers not subtracted
MissingOf_Target(availableNow) == TARGET_AVAILABLE

\* TARGET_AVAILABLE - availableNow
MissingOf(availableNow) == TARGET_AVAILABLE - availableNow

\* missing <= 0: buffer_satisfied
ScaleBufferSatisfied(u) ==
  /\ pc[u] = "count"
  /\ MissingOf(AvailableNow(ScanAvailable(store), now)) <= 0
  /\ result' = [result EXCEPT ![u] =
                  [kind |-> "Pending", scaled |-> FALSE, reason |-> "buffer_satisfied",
                   availableNow |-> AvailableNow(ScanAvailable(store), now)]]
  /\ pc' = [pc EXCEPT ![u] = "done"]
  /\ UNCHANGED <<TARGET_AVAILABLE, now, store, lastScaleOutAt, fleet, chosen, expiry, t,
                 missing, desired, desiredAfter, history>>

\* missing > 0: the DescribeAutoScalingGroupsCommand is sent
ScaleMissing(u) ==
  /\ pc[u] = "count"
  /\ MissingOf(AvailableNow(ScanAvailable(store), now)) > 0
  /\ missing' = [missing EXCEPT ![u] = MissingOf(AvailableNow(ScanAvailable(store), now))]
  /\ pc' = [pc EXCEPT ![u] = "describe"]
  /\ UNCHANGED <<TARGET_AVAILABLE, now, store, lastScaleOutAt, fleet, chosen, expiry, t,
                 desired, desiredAfter, result, history>>

\* the describe call throws, or reports no group ("ASG not found"): the catch of
\* /claim answers 500 internal_error
ScaleDescribeFail(u) ==
  /\ pc[u] = "describe"
  /\ result' = [result EXCEPT ![u] = [kind |-> "Error", error |-> "internal_error"]]
  /\ missing' = [missing EXCEPT ![u] = 0]
  /\ pc' = [pc EXCEPT ![u] = "done"]
  /\ UNCHANGED <<TARGET_AVAILABLE, now, store, lastScaleOutAt, fleet, chosen, expiry, t,
                 desired, desiredAfter, history>>

\* a faulty ScaleAtMax: the count is taken again in place of returning
ScaleAtMax_Retry(u) ==
  /\ pc[u] = "describe"
  /\ DesiredAfterOf(fleet.desired, missing[u], fleet.max) = fleet.desired
  /\ missing' = [missing EXCEPT ![u] = 0]
  /\ pc' = [pc EXCEPT ![u] = "count"]
  /\ UNCHANGED <<TARGET_AVAILABLE, now, store, lastScaleOutAt, fleet, chosen, expiry, t,
                 desired, desiredAfter, result, history>>

\* desiredAfter === desired: "ASG at max capacity"
ScaleAtMax(u) ==
  /\ pc[u] = "describe"
  /\ DesiredAfterOf(fleet.desired, missing[u], fleet.max) = fleet.desired
  /\ result' = [result EXCEPT ![u] =
                  [kind |-> "Pending", scaled |-> FALSE, reason |-> "ASG at max capacity",
                   desired |-> fleet.desired, max |-> fleet.max, missing |-> missing[u]]]
  /\ missing' = [missing EXCEPT ![u] = 0]
  /\ pc' = [pc EXCEPT ![u] = "done"]
  /\ UNCHANGED <<TARGET_AVAILABLE, now, store, lastScaleOutAt, fleet, chosen, expiry, t,
                 desired, desiredAfter, history>>

\* desiredAfter differs from desired: the SetDesiredCapacityCommand is sent
ScaleDescribeOk(u) ==
  /\ pc[u] = "describe"
  /\ DesiredAfterOf(fleet.desired, missing[u], fleet.max) # fleet.desired
  /\ desired' = [desired EXCEPT ![u] = fleet.desired]
  /\ desiredAfter' = [desiredAfter EXCEPT ![u] =
                        DesiredAfterOf(fleet.desired, missing[u], fleet.max)]
  /\ pc' = [pc EXCEPT ![u] = "set"]
  /\ UNCHANGED <<TARGET_AVAILABLE, now, store, lastScaleOutAt, fleet, chosen, expiry, t,
                 missing, result, history>>

\* lastScaleOutAt = t
NextLastScaleOutAt(last, tm) == tm

\* SetDesiredCapacity succeeds: lastScaleOutAt = t; scaled: true is returned
ScaleSetOk(u) ==
  /\ pc[u] = "set"
  /\ fleet' = [fleet EXCEPT !.desired = desiredAfter[u]]
  /\ lastScaleOutAt' = NextLastScaleOutAt(lastScaleOutAt, t[u])
  /\ result' = [result EXCEPT ![u] =
                  [kind |-> "Pending", scaled |-> TRUE, reason |-> "scaled_to_meet_buffer",
                   missing |-> missing[u], desiredBefore |-> desired[u],
                   desiredAfter |-> desiredAfter[u]]]
  /\ missing' = [missing EXCEPT ![u] = 0]
  /\ desired' = [desired EXCEPT ![u] = 0]
  /\ desiredAfter' = [desiredAfter EXCEPT ![u] = 0]
  /\ pc' = [pc EXCEPT ![u] = "done"]
  /\ setCalls' = [setCalls EXCEPT ![u] = @ + 1]
  /\ setArg' = [setArg EXCEPT ![u] = desiredAfter[u]]
  /\ setsAtNow' = Min(setsAtNow + 1, 2)
  /\ lastScaledT' = t[u]
  /\ UNCHANGED <<TARGET_AVAILABLE, now, store, chosen, expiry, t, claimedAt, leaseSetAt,
                 winners, sinceRelease>>

\* a faulty ScaleSetFail: lastScaleOutAt assigned before the call is known to
\* have succeeded
ScaleSetFail_Stamp(u) ==
  /\ pc[u] = "set"
  /\ lastScaleOutAt' = t[u]
  /\ result' = [result EXCEPT ![u] = [kind |-> "Error", error |-> "internal_error"]]
  /\ missing' = [missing EXCEPT ![u] = 0]
  /\ desired' = [desired EXCEPT ![u] = 0]
  /\ desiredAfter' = [desiredAfter EXCEPT ![u] = 0]
  /\ pc' = [pc EXCEPT ![u] = "done"]
  /\ setCalls' = [setCalls EXCEPT ![u] = @ + 1]
  /\ setArg' = [setArg EXCEPT ![u] = desiredAfter[u]]
  /\ setsAtNow' = Min(setsAtNow + 1, 2)
  /\ UNCHANGED <<TARGET_AVAILABLE, now, store, fleet, chosen, expiry, t,
                 claimedAt, leaseSetAt, winners, sinceRelease, lastScaledT>>

\* SetDesiredCapacity throws: lastScaleOutAt is not assigned; 500 internal_error
ScaleSetFail(u) ==
  /\ pc[u] = "set"
  /\ result' = [result EXCEPT ![u] = [kind |-> "Error", error |-> "internal_error"]]
  /\ missing' = [missing EXCEPT ![u] = 0]
  /\ desired' = [desired EXCEPT ![u] = 0]
  /\ desiredAfter' = [desiredAfter EXCEPT ![u] = 0]
  /\ pc' = [pc EXCEPT ![u] = "done"]
  /\ setCalls' = [setCalls EXCEPT ![u] = @ + 1]
  /\ setArg' = [setArg EXCEPT ![u] = desiredAfter[u]]
  /\ setsAtNow' = Min(setsAtNow + 1, 2)
  /\ UNCHANGED <<TARGET_AVAILABLE, now, store, lastScaleOutAt, fleet, chosen, expiry, t,
                 claimedAt, leaseSetAt, winners, sinceRelease, lastScaledT>>

\* the response is sent; the handler's locals go away
ClaimReturn(u) ==
  /\ pc[u] = "done"
  /\ pc' = [pc EXCEPT ![u] = "idle"]
  /\ chosen' = [chosen EXCEPT ![u] = NULL]
  /\ expiry' = [expiry EXCEPT ![u] = NoTime]
  /\ t' = [t EXCEPT ![u] = NoTime]
  /\ result' = [result EXCEPT ![u] = NoResult]
  /\ claimedAt' = [claimedAt EXCEPT ![u] = NoTime]
  /\ setCalls' = [setCalls EXCEPT ![u] = 0]
  /\ setArg' = [setArg EXCEPT ![u] = NoTime]
  /\ UNCHANGED <<TARGET_AVAILABLE, now, store, lastScaleOutAt, fleet, missing, desired,
                 desiredAfter, leaseSetAt, winners, sinceRelease, setsAtNow, lastScaledT>>

\* ------------------------------------------------------------------ Next
\* the steps of the routes
Requests ==
  \/ \E id \in Ids, pub \in PublicIps, priv \in PrivateIps, tm \in SampleTimes :
       Register(id, pub, priv, tm)
  \/ \E id \in Ids, tm \in SampleTimes : Heartbeat(id, tm)
  \/ \E id \in Ids : Release(id)
  \/ \E u \in Users : ClaimPick(u)
  \/ \E u \in Users : ClaimWriteOk(u)
  \/ \E u \in Users : ClaimWriteConflict(u)
  \/ \E u \in Users : ClaimMissCooldown(u)
  \/ \E u \in Users : ClaimMissScale(u)
  \/ \E u \in Users : ScaleBufferSatisfied(u)
  \/ \E u \in Users : ScaleMissing(u)
  \/ \E u \in Users : ScaleDescribeFail(u)
  \/ \E u \in Users : ScaleAtMax(u)
  \/ \E u \in Users : ScaleDescribeOk(u)
  \/ \E u \in Users : ScaleSetOk(u)
  \/ \E u \in Users : ScaleSetFail(u)
  \/ \E u \in Users : ClaimReturn(u)

Next == Tick \/ Requests

Spec == Init /\ [][Next]_vars

\* The steps the server takes by itself once a request has arrived: the steps of
\* the /claim handlers.  Requests arrive when clients send them.
ServerStep ==
  \E u \in Users :
    \/ ClaimWriteOk(u) \/ ClaimWriteConflict(u)
    \/ ScaleBufferSatisfied(u) \/ ScaleMissing(u)
    \/ ScaleAtMax(u) \/ ScaleDescribeOk(u) \/ ScaleDescribeFail(u)
    \/ ScaleSetOk(u) \/ ScaleSetFail(u) \/ ClaimReturn(u)

LeaseNext == LeaseTick \/ Requests

\* The program over the lifetime of a lease, the clock taking the long step
\* only: time goes on, and a handler that has started runs to its end.
LeaseSpec == Init /\ [][LeaseNext]_vars /\ WF_vars(LeaseTick) /\ WF_vars(ServerStep)

\* ================================================================ claims
\* steps of the /claim handler of u, told by its position
ClaimedStep(u) == pc[u] = "write" /\ pc'[u] = "done" /\ result'[u].kind = "Claimed"

ConflictStep(u) == pc[u] = "write" /\ pc'[u] = "done" /\ result'[u].kind = "Conflict"

IsLeasedBy(id, u) ==
  id \in DOMAIN store /\ store[id].status = "leased" /\ store[id].userId = u

\* C1: claims racing on one available, healthy worker: between two register/release
\* writes of the worker at most one conditional write succeeds, the worker is then
\* leased to exactly that user, and a claim answered Conflict lost to another
\* user's successful claim.
C1_StateOk ==
  \A id \in Ids :
    /\ Cardinality(winners[id]) <= 1
    /\ \A u \in winners[id] : IsLeasedBy(id, u)

C1_StepOk ==
  \A u \in Users :
    /\ ClaimedStep(u) =>
         /\ winners[chosen[u]] = {}
         /\ store'[chosen[u]].status = "leased"
         /\ store'[chosen[u]].userId = u
    /\ ConflictStep(u) =>
         /\ \E v \in Users \ {u} : winners[chosen[u]] = {v} /\ IsLeasedBy(chosen[u], v)
         /\ store' = store

\* C1: of the claims racing on one available, healthy worker exactly one is
\* answered Claimed, the others Conflict, and the worker ends leased to the winner.
C1_MutualExclusion == [](C1_StateOk) /\ [][C1_StepOk]_vars

\* two claims chose the same worker; one was answered Claimed, the other Conflict
C1_Witness ==
  \E u \in Users, v \in Users :
    /\ u # v /\ pc[u] = "done" /\ pc[v] = "done"
    /\ result[u].kind = "Claimed" /\ result[v].kind = "Conflict"
    /\ chosen[u] = chosen[v]
    /\ IsLeasedBy(chosen[u], u)

\* C2: every item has status = leased iff userId is non-null iff leaseExpiry is
\* non-null (an absent attribute counts as null).
C2_LeaseFields ==
  \A id \in DOMAIN store :
    /\ (store[id].status = "leased") <=> (store[id].userId # NULL)
    /\ (store[id].userId # NULL) <=> (store[id].leaseExpiry # NoTime)

\* a worker is leased to one user while another user's claim was answered Conflict
C2_Witness ==
  \E id \in DOMAIN store :
    /\ store[id].status = "leased" /\ store[id].userId # NULL
    /\ Cardinality(sinceRelease[id]) = 1
    /\ \E u \in Users : pc[u] = "done" /\ result[u].kind = "Conflict"

\* C3 (as stated): leased -> available only by release of that worker, and
\* available -> leased only by a claim whose conditional write succeeded.
C3_Orig ==
  [][\A id \in Ids :
       /\ (/\ id \in DOMAIN store /\ store[id].status = "leased"
           /\ store'[id].status = "available") => Release(id)
       /\ (/\ id \in DOMAIN store /\ store[id].status = "available"
           /\ store'[id].status = "leased")
            => \E u \in Users : ClaimedStep(u) /\ chosen[u] = id]_vars

\* C4 (as stated): between two releases of a worker, claim returns Claimed for it
\* to at most one user.
C4_Orig == \A id \in Ids : Cardinality(sinceRelease[id]) <= 1

\* the step in which the handler of u, having found no healthy worker, calls
\* scaleToMeetBuffer(): it starts at the clock value now
ScaleCallStep(u) == pc[u] = "idle" /\ pc'[u] \in {"count", "done"}

CooldownActive(r) == r.kind = "Pending" /\ ~r.scaled /\ r.reason = "cooldown_active"

\* the claimable workers of the table at clock value tm, written out
Claimable(tm) ==
  {id \in DOMAIN store :
     /\ store[id].status = "available"
     /\ store[id].lastHeartbeat # NoTime
     /\ tm - store[id].lastHeartbeat <= HEARTBEAT_MAX_AGE_MS}

\* C5 (as stated): a scaleToMeetBuffer() call that starts less than the cooldown
\* after the start of an earlier call returns cooldown_active, whatever the
\* earlier call returned.  Stated for an earlier call that has already returned.
C5_Orig ==
  [][\A u \in Users :
       (/\ ScaleCallStep(u)
        /\ \E v \in Users \ {u} :
             /\ pc[v] = "done" /\ result[v].kind = "Pending"
             /\ now - t[v] < SCALE_COOLDOWN_MS)
         => CooldownActive(result'[u])]_vars

\* C5 (amended): a call that starts less than the cooldown after the start time t
\* of the last call that returned scaled: true returns cooldown_active, whether
\* or not the buffer is met.
C5_Cooldown ==
  [][\A u \in Users :
       (/\ ScaleCallStep(u)
        /\ lastScaledT # NoTime
        /\ now - lastScaledT < SCALE_COOLDOWN_MS)
         => /\ pc'[u] = "done"
            /\ CooldownActive(result'[u])
            /\ fleet' = fleet /\ lastScaleOutAt' = lastScaleOutAt]_vars

\* a call returned cooldown_active while no worker was claimable
C5_Witness ==
  \E u \in Users :
    /\ pc[u] = "done" /\ CooldownActive(result[u])
    /\ t[u] = now /\ now - lastScaledT < SCALE_COOLDOWN_MS
    /\ Claimable(now) = {}

\* C6 (as stated): at most one SetDesiredCapacity call within a cooldown window.
\* Stated for the calls sent at one clock value.
C6_Orig == setsAtNow <= 1

\* C7: past the cooldown gate with missing > 0 and min(desired + missing, max)
\* different from desired, SetDesiredCapacity is called exactly once, with
\* min(desired + missing, max), and the call that succeeds returns scaled: true
\* with desiredBefore = desired and that desiredAfter.
C7_StepOk ==
  \A u \in Users :
    /\ (/\ pc[u] = "describe" /\ pc'[u] # "describe" /\ result'[u].kind # "Error"
        /\ Min(fleet.desired + missing[u], fleet.max) # fleet.desired)
         => /\ pc'[u] = "set"
            /\ missing[u] > 0
            /\ desired'[u] = fleet.desired
            /\ desiredAfter'[u] = Min(fleet.desired + missing[u], fleet.max)
            /\ setCalls'[u] = 0
    /\ (pc[u] = "set" /\ pc'[u] # "set")
         => /\ setCalls'[u] = 1
            /\ setArg'[u] = desiredAfter[u]
            /\ result'[u].kind # "Error"
                 => /\ result'[u].kind = "Pending" /\ result'[u].scaled
                    /\ result'[u].desiredBefore = desired[u]
                    /\ result'[u].desiredAfter = desiredAfter[u]
                    /\ fleet'.desired = desiredAfter[u]

\* C7: every scale-out step sends SetDesiredCapacity once, with
\* min(desired + missing, max), and reports desiredBefore and desiredAfter so.
C7_ScaleByMissing == [][C7_StepOk]_vars

\* a call returned scaled: true with desired + missing cut down to max
C7_Witness ==
  \E u \in Users :
    /\ pc[u] = "done" /\ result[u].kind = "Pending" /\ result[u].scaled
    /\ setCalls[u] = 1
    /\ result[u].missing = 2
    /\ result[u].desiredBefore + result[u].missing > result[u].desiredAfter
    /\ result[u].desiredAfter = fleet.max

\* C8: past the cooldown gate with missing > 0 and desired equal to max, the call
\* returns scaled: false, "ASG at max capacity" with desired and max, sends no
\* SetDesiredCapacity and leaves lastScaleOutAt as it was.
C8_StepOk ==
  \A u \in Users :
    (/\ pc[u] = "describe" /\ pc'[u] # "describe" /\ result'[u].kind # "Error"
     /\ missing[u] > 0 /\ fleet.desired = fleet.max)
      => /\ pc'[u] = "done"
         /\ result'[u].kind = "Pending" /\ ~result'[u].scaled
         /\ result'[u].reason = "ASG at max capacity"
         /\ result'[u].desired = fleet.desired /\ result'[u].max = fleet.max
         /\ setCalls'[u] = 0 /\ setsAtNow' = setsAtNow
         /\ fleet' = fleet
         /\ lastScaleOutAt' = lastScaleOutAt

\* C8: with missing > 0 and desired = max every call returns "ASG at max
\* capacity", sends no SetDesiredCapacity and leaves lastScaleOutAt alone.
C8_AtMax == [][C8_StepOk]_vars

\* a call returned "ASG at max capacity"
C8_Witness ==
  \E u \in Users :
    /\ pc[u] = "done" /\ result[u].kind = "Pending" /\ ~result[u].scaled
    /\ result[u].reason = "ASG at max capacity"
    /\ result[u].desired = result[u].max /\ result[u].missing > 0
    /\ setCalls[u] = 0

\* C9: a claim chooses, and the table leases out, only a worker that is available
\* with heartbeat age <= HEARTBEAT_MAX_AGE_MS when the claim filters its scan; a
\* stale worker is not counted in availableNow either.
C9_StepOk ==
  \A u \in Users :
    /\ (pc[u] = "idle" /\ pc'[u] = "write") => chosen'[u] \in Claimable(now)
    /\ (pc[u] = "idle" /\ pc'[u] \in {"count", "done"}) => Claimable(now) = {}
    /\ ClaimedStep(u) => result'[u].instanceId = chosen[u]
    /\ (pc[u] = "count" /\ pc'[u] = "describe")
         => missing'[u] = TARGET_AVAILABLE - Cardinality(Claimable(now))
    /\ (pc[u] = "count" /\ pc'[u] = "done")
         => result'[u].availableNow = Cardinality(Claimable(now))

C9_WriteOk ==
  \A id \in Ids :
    (/\ id \in DOMAIN store /\ store[id].status # "leased"
     /\ store'[id].status = "leased")
      => \E u \in Users : pc[u] = "write" /\ chosen[u] = id

\* C9: no step chooses, leases out or counts an available worker whose heartbeat
\* is older than HEARTBEAT_MAX_AGE_MS.
C9_StaleNotClaimed == [][C9_StepOk /\ C9_WriteOk]_vars

\* a claim found the only worker available but stale, and went on to count 0
\* available workers
C9_Witness ==
  \E u \in Users, id \in DOMAIN store :
    /\ pc[u] = "describe" /\ t[u] = now /\ missing[u] = TARGET_AVAILABLE
    /\ store[id].status = "available"
    /\ store[id].lastHeartbeat # NoTime
    /\ now - store[id].lastHeartbeat > HEARTBEAT_MAX_AGE_MS

\* C10: every leaseExpiry in the table is the clock value of the claim that set it
\* plus LEASE_TTL_MS; a claim that follows register(W) at once, W the only worker
\* and nothing interfering, returns Claimed for W with that leaseExpiry and the
\* table then has W leased to the claimant with the same leaseExpiry.
C10_StateOk ==
  /\ \A id \in DOMAIN store :
       store[id].leaseExpiry # NoTime
         => /\ leaseSetAt[id] # NoTime
            /\ store[id].leaseExpiry = leaseSetAt[id] + LEASE_TTL_MS
  /\ \A u \in Users :
       (pc[u] = "done" /\ result[u].kind = "Claimed")
         => result[u].leaseExpiry = claimedAt[u] + LEASE_TTL_MS

C10_StepOk ==
  \A u \in Users :
    /\ (/\ pc[u] = "idle" /\ pc'[u] # "idle"
        /\ \E id \in DOMAIN store :
             store[id].status = "available" /\ store[id].lastHeartbeat = now)
         => /\ pc'[u] = "write" /\ claimedAt'[u] = now
            /\ chosen'[u] \in DOMAIN store
            /\ store[chosen'[u]].status = "available"
    /\ (/\ pc[u] = "write" /\ pc'[u] # "write"
        /\ store[chosen[u]].status = "available")
         => /\ result'[u].kind = "Claimed"
            /\ result'[u].instanceId = chosen[u]
            /\ result'[u].leaseExpiry = claimedAt[u] + LEASE_TTL_MS
            /\ store'[chosen[u]].status = "leased"
            /\ store'[chosen[u]].userId = u
            /\ store'[chosen[u]].leaseExpiry = result'[u].leaseExpiry

\* C10: leaseExpiry is always the claim's clock value plus LEASE_TTL_MS, in the
\* table and in the response; a claim right after register(W) leases W.
C10_LeaseExpiry == [](C10_StateOk) /\ [][C10_StepOk]_vars

\* W was registered and claimed at one clock value: Claimed, and W is leased
C10_Witness ==
  \E u \in Users, id \in Ids :
    /\ DOMAIN store = {id}
    /\ pc[u] = "done" /\ result[u].kind = "Claimed" /\ result[u].instanceId = id
    /\ store[id].lastHeartbeat = claimedAt[u]
    /\ store[id].status = "leased" /\ store[id].userId = u
    /\ store[id].leaseExpiry = claimedAt[u] + LEASE_TTL_MS
    /\ result[u].leaseExpiry = store[id].leaseExpiry

\* release(release(st)) = release(st), for every worker
ReleaseTwice(st) ==
  \A id \in Ids :
    Upsert(Upsert(st, id, ReleaseUpdate(ItemOf(st, id))), id,
           ReleaseUpdate(ItemOf(Upsert(st, id, ReleaseUpdate(ItemOf(st, id))), id)))
      = Upsert(st, id, ReleaseUpdate(ItemOf(st, id)))

C11_StepOk ==
  \A id \in Ids :
    (id \in DOMAIN store /\ store[id].status = "available" /\ Release(id))
      => store' = store

\* C11: a release of a worker that is already available leaves its item (status,
\* publicIp, privateIp, userId, leaseExpiry) and the table as they were, and
\* release applied twice gives the table that release applied once gives.
C11_ReleaseIdempotent == [](ReleaseTwice(store)) /\ [][C11_StepOk]_vars

\* W was registered, claimed by u and released after that: it is available with
\* its addresses and heartbeat, and one more release gives this very table
C11_Witness ==
  \E id \in DOMAIN store, u \in Users :
    /\ pc[u] = "done" /\ result[u].kind = "Claimed" /\ result[u].instanceId = id
    /\ sinceRelease[id] = {}
    /\ store[id].status = "available" /\ store[id].publicIp # NULL
    /\ store[id].lastHeartbeat # NoTime
    /\ Upsert(store, id, ReleaseUpdate(ItemOf(store, id))) = store

\* C12 (as stated): a heartbeat for an id that has no item fails and leaves the
\* table as it was: no item is created for the id.
C12_Orig ==
  [][\A id \in Ids :
       (id \notin DOMAIN store /\ \E tm \in SampleTimes : Heartbeat(id, tm))
         => store' = store]_vars

\* C17 (as stated): the lastHeartbeat of an item never decreases, whatever the
\* order in which the writes of /register and /heartbeat reach the table.
C17_Orig ==
  [][\A id \in DOMAIN store :
       store[id].lastHeartbeat # NoTime
         => store'[id].lastHeartbeat >= store[id].lastHeartbeat]_vars

\* the step is a /register of id
RegisterStep(id) ==
  \E pub \in PublicIps, priv \in PrivateIps, tm \in SampleTimes :
    Register(id, pub, priv, tm)

\* C18 (as stated): every item was created by a /register, and its status is
\* available or leased.
C18_Orig ==
  /\ [](\A id \in DOMAIN store : store[id].status \in {"available", "leased"})
  /\ [][\A id \in Ids :
         (id \notin DOMAIN store /\ id \in DOMAIN store') => RegisterStep(id)]_vars

\* a claim that chose a worker has not entered scaleToMeetBuffer()
C13_StateOk ==
  \A u \in Users :
    (pc[u] = "done" /\ result[u].kind = "Conflict") => setCalls[u] = 0 /\ t[u] = NoTime

\* the conditional write of u reaches a worker that is not available any more
C13_StepOk ==
  \A u \in Users :
    (/\ pc[u] = "write" /\ pc'[u] # "write"
     /\ store[chosen[u]].status # "available")
      => /\ result'[u].kind = "Conflict"
         /\ store' = store
         /\ lastScaleOutAt' = lastScaleOutAt
         /\ fleet' = fleet
         /\ setCalls' = setCalls /\ setsAtNow' = setsAtNow

\* C13: a claim whose conditional write finds the chosen worker not available is
\* answered Conflict and changes nothing: not the table, not lastScaleOutAt, and
\* it calls the Auto Scaling API at no point.
C13_ConflictFrame == [](C13_StateOk) /\ [][C13_StepOk]_vars

\* u was answered Conflict for a worker that v holds, v's own claim long answered
C13_Witness ==
  \E u \in Users : \E v \in Users \ {u} :
    /\ pc[u] = "done" /\ result[u].kind = "Conflict"
    /\ pc[v] = "idle"
    /\ store[result[u].instanceId].status = "leased"
    /\ store[result[u].instanceId].userId = v

\* the positions of a handler inside scaleToMeetBuffer(), in the order of the code
InScale == {"count", "describe", "set"}

ScaleOrder(p) == IF p = "count" THEN 1 ELSE IF p = "describe" THEN 2 ELSE 3

\* the decision a Pending response carries
IsDecision(r) ==
  /\ r.kind = "Pending"
  /\ r.reason \in {"cooldown_active", "buffer_satisfied", "ASG at max capacity",
                    "scaled_to_meet_buffer"}
  /\ r.scaled = (r.reason = "scaled_to_meet_buffer")

C14_StateOk ==
  \A u \in Users :
    /\ pc[u] \in InScale => t[u] # NoTime /\ chosen[u] = NULL /\ result[u] = NoResult
    /\ (pc[u] = "done" /\ t[u] # NoTime)
         => chosen[u] = NULL /\ (IsDecision(result[u]) \/ result[u].kind = "Error")

C14_StepOk ==
  \A u \in Users :
    /\ (pc[u] = "idle" /\ pc'[u] # "idle" /\ Healthy(ScanAvailable(store), now) = {})
         => /\ pc'[u] \in {"count", "done"}
            /\ t'[u] = now
            /\ store' = store
    /\ (pc[u] \in InScale /\ pc'[u] # pc[u])
         => /\ \/ pc'[u] = "done"
               \/ pc'[u] \in InScale /\ ScaleOrder(pc'[u]) > ScaleOrder(pc[u])
            /\ t'[u] = t[u]
            /\ store' = store
    /\ (pc[u] = "done" /\ pc'[u] # "done") => pc'[u] = "idle" /\ store' = store

\* C14: a claim that finds no claimable worker calls scaleToMeetBuffer() once,
\* with no retry of the call or of a step of it, answers Pending with the
\* decision the call returned (500 if the call threw), and writes no item.
C14_MissDelegates == [](C14_StateOk) /\ [][C14_StepOk]_vars

\* a claim found the only worker leased, and was answered Pending with the
\* decision buffer_satisfied or "ASG at max capacity"
C14_Witness ==
  \E u \in Users, id \in DOMAIN store :
    /\ store[id].status = "leased"
    /\ pc[u] = "done" /\ IsDecision(result[u])
    /\ result[u].reason \in {"buffer_satisfied", "ASG at max capacity"}

C15_StepOk ==
  \A u \in Users :
    (ScaleCallStep(u) /\ now < lastScaleOutAt + SCALE_COOLDOWN_MS)
      => /\ pc'[u] = "done"
         /\ CooldownActive(result'[u])
         /\ result'[u].retryAfterMs = lastScaleOutAt + SCALE_COOLDOWN_MS - now
         /\ result'[u].retryAfterMs > 0
         /\ result'[u].retryAfterMs <= SCALE_COOLDOWN_MS
         /\ store' = store /\ fleet' = fleet /\ lastScaleOutAt' = lastScaleOutAt
         /\ setCalls' = setCalls /\ setsAtNow' = setsAtNow

\* C15: a scaleToMeetBuffer() call at now < lastScaleOutAt + cooldown returns
\* cooldown_active at once: no scan of the table, no call of the Auto Scaling
\* API, lastScaleOutAt as it was, and retryAfterMs = lastScaleOutAt + cooldown - now,
\* which lies in (0, cooldown].
C15_CooldownGate == [][C15_StepOk]_vars

\* a call was answered cooldown_active some time after the scale-out, with part
\* of the cooldown left
C15_Witness ==
  \E u \in Users :
    /\ pc[u] = "done" /\ CooldownActive(result[u])
    /\ t[u] > lastScaleOutAt
    /\ result[u].retryAfterMs = lastScaleOutAt + SCALE_COOLDOWN_MS - t[u]
    /\ result[u].retryAfterMs < SCALE_COOLDOWN_MS

\* the lease of the item of id has run out
Expired(id) ==
  id \in DOMAIN store /\ store[id].status = "leased" /\ store[id].leaseExpiry < now

\* C16 (as stated): a leased worker whose leaseExpiry has passed becomes
\* available again, with no /release sent for it.
C16_Orig ==
  \A id \in Ids :
    Expired(id) ~> (id \in DOMAIN store /\ store[id].status = "available")

C19_StepOk ==
  \A u \in Users :
    (/\ pc[u] = "count" /\ pc'[u] # "count"
     /\ TARGET_AVAILABLE - Cardinality(Claimable(now)) <= 0)
      => /\ pc'[u] = "done"
         /\ result'[u].kind = "Pending" /\ ~result'[u].scaled
         /\ result'[u].reason = "buffer_satisfied"
         /\ result'[u].availableNow = Cardinality(Claimable(now))
         /\ fleet' = fleet /\ lastScaleOutAt' = lastScaleOutAt
         /\ setCalls' = setCalls /\ setsAtNow' = setsAtNow
         /\ store' = store

\* C19: past the cooldown gate, when the count of claimable workers taken then
\* gives missing = TARGET_AVAILABLE - availableNow <= 0, the call returns
\* buffer_satisfied with no call of the Auto Scaling API and lastScaleOutAt as
\* it was.
C19_BufferSatisfied == [][C19_StepOk]_vars

\* a claim found no worker, a worker registered while it waited, and its count
\* met the target
C19_Witness ==
  \E u \in Users :
    /\ pc[u] = "done" /\ result[u].kind = "Pending"
    /\ result[u].reason = "buffer_satisfied"
    /\ result[u].availableNow >= TARGET_AVAILABLE
    /\ t[u] # NoTime /\ setCalls[u] = 0

\* the step in which the call of u inside scaleToMeetBuffer() throws
FailStep(u) == pc[u] \in {"describe", "set"} /\ pc'[u] = "done" /\ result'[u].kind = "Error"

C20_StateOk ==
  \A u \in Users :
    (pc[u] = "done" /\ result[u].kind = "Error")
      => /\ result[u] = [kind |-> "Error", error |-> "internal_error"]
         /\ chosen[u] = NULL /\ setCalls[u] <= 1

C20_StepOk ==
  \A u \in Users :
    /\ FailStep(u)
         => /\ store' = store /\ lastScaleOutAt' = lastScaleOutAt /\ fleet' = fleet
            /\ lastScaledT' = lastScaledT
            /\ pc[u] = "describe" => setCalls'[u] = 0 /\ setsAtNow' = setsAtNow
            /\ pc[u] = "set" => setCalls'[u] = 1
    /\ (pc[u] = "done" /\ result[u].kind = "Error" /\ pc'[u] # "done")
         => pc'[u] = "idle" /\ store' = store /\ fleet' = fleet

\* C20: when the describe or the SetDesiredCapacity call fails (or no group is
\* reported), the claim is answered 500 and nothing is left behind:
\* lastScaleOutAt and the table are as they were, the call is not sent again,
\* and after a failed describe no SetDesiredCapacity is sent.
C20_DependencyFailure == [](C20_StateOk) /\ [][C20_StepOk]_vars

\* a SetDesiredCapacity call was sent once and failed: the group's desired size
\* is not the one asked for, and lastScaleOutAt is not the call's t
C20_Witness ==
  \E u \in Users :
    /\ pc[u] = "done" /\ result[u].kind = "Error"
    /\ setCalls[u] = 1 /\ setArg[u] # fleet.desired
    /\ lastScaleOutAt # t[u]

\* the step in which the SetDesiredCapacity call of u succeeds and its
\* scaleToMeetBuffer() returns scaled: true
ScaledStep(u) ==
  /\ pc[u] = "set" /\ pc'[u] = "done"
  /\ result'[u].kind = "Pending" /\ result'[u].scaled
  /\ setCalls'[u] = setCalls[u] + 1

\* C21 (as stated): lastScaleOutAt is assigned only by a call that sent
\* SetDesiredCapacity and returns scaled: true, and it never decreases, in
\* whatever order the calls complete.
C21_Orig ==
  [][/\ lastScaleOutAt' # lastScaleOutAt => \E u \in Users : ScaledStep(u)
     /\ lastScaleOutAt' >= lastScaleOutAt]_vars

\* the group keeps its desired size within its maximum, and a handler about to
\* send SetDesiredCapacity asks for more than it read and no more than the maximum
C22_StateOk ==
  /\ fleet.desired <= fleet.max
  /\ \A u \in Users :
       pc[u] = "set" => desired[u] < desiredAfter[u] /\ desiredAfter[u] <= fleet.max

C22_StepOk ==
  \A u \in Users :
    /\ (pc[u] = "describe" /\ pc'[u] = "set")
         => /\ desired'[u] = fleet.desired
            /\ desiredAfter'[u] > fleet.desired
            /\ desiredAfter'[u] <= fleet.max
    /\ (pc[u] = "set" /\ pc'[u] # "set")
         => /\ setCalls'[u] = setCalls[u] + 1
            /\ setArg'[u] > desired[u]
            /\ setArg'[u] <= fleet.max
    /\ setCalls'[u] > setCalls[u] => pc[u] = "set"

\* C22: every SetDesiredCapacity call of scaleToMeetBuffer() asks for a size
\* greater than the desired size the call read from the group and not greater
\* than the maximum it read.
C22_ScaleOutOnly == [](C22_StateOk) /\ [][C22_StepOk]_vars

\* a call read desired size d below the maximum and asked for a size above d
\* and below the maximum
C22_Witness ==
  \E u \in Users :
    /\ pc[u] = "done" /\ result[u].kind = "Pending" /\ result[u].scaled
    /\ setCalls[u] = 1
    /\ setArg[u] > result[u].desiredBefore
    /\ setArg[u] < fleet.max
====
